---- MODULE Spec2Model ----
(***************************************************************************)
(* tile-dl: the tile enumeration loops, the polling thread pool and the     *)
(* per-tile fetch (run_request) of src/main.rs, as a state machine.        *)
(*                                                                         *)
(* The main thread walks the nested loops over z, x and y, throttles on    *)
(* the length of the `handles` vector, spawns one thread per tile and      *)
(* finally drains the vector.  Every spawned thread runs run_request once  *)
(* and then counts as finished (JoinHandle::is_finished).                  *)
(***************************************************************************)
EXTENDS Integers, Sequences, FiniteSets, TLC

\* ------------------------------------------------------------------ bounds
\* largest zoom level the command line is drawn from
MaxZoom == 2
\* largest --x / --y offset the command line is drawn from
MaxOffset == 2
\* largest --concurrent-threads the command line is drawn from
MaxThreads == 2
\* command lines whose tile count plus thread limit exceeds this are left out
MaxLoad == 5
\* the same, for the runs checked under fairness
MaxLiveLoad == 4
\* the deepest zoom level the tile server has tiles for
ServerMaxZoom == 1
\* the same as MaxLoad, for the runs with a fetch that may never finish
MaxSlowLoad == 6
\* largest zoom level of the runs that only compute the tile counts
MaxPowZoom == 33

VARIABLES
    args,        \* the parsed command line (struct Args)
    pc,          \* position of the main thread
    z, n, x, y,  \* the loop variables of main and the per-level tile count
    directory,   \* the `directory` string of the current (z, x)
    handles,     \* Vec<JoinHandle>: the ids of the tracked threads, in order
    i, len,      \* the sweep's index and the range end fixed at its start
    threads,     \* every spawned thread: id -> [path, bounds, finished]
    dispatched,  \* the ids of the spawned threads, in the order of the spawns
    dirs,        \* the directories main has made sure exist, in that order
    files,       \* destination path -> what this run has done to the file
    stdout       \* the ids whose thread printed "Failed to save ..."

vars == <<args, pc, z, n, x, y, directory, handles, i, len, threads,
          dispatched, dirs, files, stdout>>

\* ------------------------------------------------------------ command line
\* --output-dir; its value plays no role in the control flow
OutputDir == "out"

\* the tiles of a command line: z in start_zoom..end_zoom, x and y from the
\* offsets up to 2^z - 1 (used to bound the command lines, and by the claims)
InEnumeration(a, t) ==
    /\ a.start_zoom <= t[1] /\ t[1] <= a.end_zoom
    /\ a.x <= t[2] /\ t[2] < 2^(t[1])
    /\ a.y <= t[3] /\ t[3] < 2^(t[1])

Enumerated(a) ==
    { t \in (0..MaxZoom) \X (0..(2^MaxZoom - 1)) \X (0..(2^MaxZoom - 1)) :
        InEnumeration(a, t) }

\* tile count plus thread limit
Load(a) == Cardinality(Enumerated(a)) + a.concurrent_threads

\* the command lines drawn from
ArgsUpTo ==
    [start_zoom : 0..MaxZoom, end_zoom : 0..MaxZoom,
     x : 0..MaxOffset, y : 0..MaxOffset,
     concurrent_threads : 0..MaxThreads]

Args == { a \in ArgsUpTo : Load(a) <= MaxLoad }

\* the command lines of one zoom level with a thread limit of two or more
SlowArgs ==
    { a \in ArgsUpTo : /\ a.concurrent_threads >= 2
                       /\ a.start_zoom = a.end_zoom
                       /\ Load(a) <= MaxSlowLoad }

\* ------------------------------------------------------------- run_request
\* the byte counts told apart: nothing, or something
Lengths == {0, 1}

\* what the outside world answers to one fetch, by the first step that fails:
\*   client: Client::builder().build()       send: client.get(url).send()
\*   create: File::create(path)              copy: res.copy_to(&mut file)
\*   bytes:  the bytes that reached the file (the `l` of Ok(l) when copy is ok)
Responses ==
    {[client |-> "err", send |-> "-", create |-> "-", copy |-> "-", bytes |-> 0],
     [client |-> "ok", send |-> "err", create |-> "-", copy |-> "-", bytes |-> 0],
     [client |-> "ok", send |-> "ok", create |-> "err", copy |-> "-", bytes |-> 0]}
    \cup
    {[client |-> "ok", send |-> "ok", create |-> "ok", copy |-> c, bytes |-> b] :
        c \in {"ok", "err"}, b \in Lengths}

\* a test that takes an empty copy for a success
AnyLengthMeansSuccess(l) == l >= 0

\* `if l > 0 {return Some(true);}`
BytesMeanSuccess(l) == l > 0

\* the HTTP status the tile server answers a tile's GET with: 404 past the
\* levels it has tiles for
StatusOf(id) == IF id[1] <= ServerMaxZoom THEN 200 ELSE 404

\* `if let Ok(mut res) = client.get(url).send()`: a response of any status
\* is Ok, there is no error_for_status
SendIsOk(r, status) == r.send = "ok"

\* the return value of run_request
RunRequest(r, status) ==
    IF r.client = "ok"
    THEN IF SendIsOk(r, status)
         THEN IF r.create = "ok"
              THEN IF r.copy = "ok"
                   THEN IF BytesMeanSuccess(r.bytes) THEN "Some" ELSE "None"
                   ELSE "None"
              ELSE "None"
         ELSE "None"
    ELSE "None"

\* a destination this run has not created or truncated (absent, or left over)
Untouched == [state |-> "untouched", bytes |-> 0]

\* what run_request leaves at the destination path, given what was there:
\* File::create makes or truncates the file, copy_to fills it
FileAfter(r, status, before) ==
    IF r.client = "ok" /\ SendIsOk(r, status) /\ r.create = "ok"
    THEN [state |-> "created", bytes |-> r.bytes]
    ELSE before

\* the width of a u32
U32Bits == 32

\* a u32 is kept as two halves of 16 bits: [hi, lo], with the flag of an
\* overflow on the way to it
Half == 2^(U32Bits \div 2)

U32One == [hi |-> 0, lo |-> 1, overflow |-> FALSE]

\* `2 * v` in u32: the product modulo 2^32, and whether it overflowed
U32Double(v) ==
    LET lo2 == 2 * v.lo
        hi2 == 2 * v.hi + (lo2 \div Half)
    IN [hi |-> hi2 % Half, lo |-> lo2 % Half,
        overflow |-> v.overflow \/ hi2 >= Half]

\* `u32::pow(2, zz)`: zz multiplications by 2, in u32
RECURSIVE U32Pow2(_)
U32Pow2(zz) == IF zz = 0 THEN U32One ELSE U32Double(U32Pow2(zz - 1))

\* the number a u32 stands for (below 2^31)
U32Value(v) == v.hi * Half + v.lo

\* --------------------------------------------------------------- main: loops
\* a tile count of 2*z instead of 2^z
TileCountDoubled(zz) == 2 * zz

\* `let n = u32::pow(2,z);`
TileCount(zz) == U32Value(U32Pow2(zz))

\* a directory name without the x component
DirectoryWithoutX(zz, xx) == OutputDir \o "/" \o ToString(zz)

\* `format!("{}/{}/{}", args.output_dir, z.to_string(), x.to_string())`
Directory(zz, xx) == OutputDir \o "/" \o ToString(zz) \o "/" \o ToString(xx)

\* `format!("{}/{}.png", directory, y.to_string())`
Path(dir, yy) == dir \o "/" \o ToString(yy) \o ".png"

\* x and y injected the wrong way round
TileIdSwapped(zz, xx, yy) == <<zz, yy, xx>>

\* the tile a request is for: x, y and z as injected into the url
TileId(zz, xx, yy) == <<zz, xx, yy>>

\* an x offset that applies to the first zoom level only
XStartOnce(zz) == IF zz = args.start_zoom THEN args.x ELSE 0

\* `for x in args.x..n`: where the x range of a level starts
XStart(zz) == args.x

\* a y offset beyond the level that wraps round into it
YStartWrapped(zz, xx) == args.y % TileCount(zz)

\* `for y in args.y..n`: where the y range of a column starts
YStart(zz, xx) == args.y

\* ------------------------------------------------------------ main: bounds
\* an f32 is kept as the fraction <<numerator, denominator>> it stands for;
\* the values met here are multiples of 45/2^k small enough to be exact in f32
F32(k) == <<k, 1>>
F32Mul(a, b) == <<a[1] * b[1], a[2] * b[2]>>
F32Div(a, b) == <<a[1] * b[2], a[2] * b[1]>>
F32Add(a, b) == <<a[1] * b[2] + b[1] * a[2], a[2] * b[2]>>
F32Sub(a, b) == <<a[1] * b[2] - b[1] * a[2], a[2] * b[2]>>
F32Neg(a) == <<0 - a[1], a[2]>>

\* the decimals of r/d, 0 < r < d, d a power of two
RECURSIVE Decimals(_, _)
Decimals(r, d) ==
    IF r = 0 THEN ""
    ELSE ToString((10 * r) \div d) \o Decimals((10 * r) % d, d)

\* `{}` of an f32: sign, integer part and, when there are any, the decimals
F32ToString(a) ==
    LET m == IF a[1] < 0 THEN 0 - a[1] ELSE a[1]
    IN (IF a[1] < 0 THEN "-" ELSE "")
           \o ToString(m \div a[2])
           \o (IF m % a[2] = 0 THEN "" ELSE "." \o Decimals(m % a[2], a[2]))

\* a box with the latitude growing with y
BoundsSouthUp(nn, xx, yy) ==
    LET lon_step == F32Div(F32(360), F32(nn))
        lon == F32Sub(F32Mul(F32(xx), lon_step), F32(180))
        lat_step == F32Div(F32(180), F32(nn))
        lat == F32Sub(F32Mul(F32(yy), lat_step), F32(90))
    IN <<F32Add(lat, lat_step), lat, lon, F32Add(lon, lon_step)>>

\* lon_step, lon, lat_step, lat and the four values handed to format!
Bounds(nn, xx, yy) ==
    LET lon_step == F32Div(F32(360), F32(nn))
        lon == F32Sub(F32Mul(F32(xx), lon_step), F32(180))
        lat_step == F32Div(F32(180), F32(nn))
        lat == F32Add(F32Neg(F32Mul(F32(yy), lat_step)), F32(90))
    IN <<lat, F32Sub(lat, lat_step), lon, F32Add(lon, lon_step)>>

\* `format!("({},{},{},{})", ...)`: the text put in place of {bounds}, of
\* the four values a thread's url carries
BoundsText(b) ==
    "(" \o F32ToString(b[1]) \o "," \o F32ToString(b[2]) \o ","
        \o F32ToString(b[3]) \o "," \o F32ToString(b[4]) \o ")"

Start ==
    /\ pc = "for_z"
    /\ z = args.start_zoom
    /\ n = 0 /\ x = 0 /\ y = 0
    /\ directory = ""
    /\ handles = <<>>
    /\ i = 0 /\ len = 0
    /\ threads = <<>>
    /\ dispatched = <<>>
    /\ dirs = <<>>
    /\ files = <<>>
    /\ stdout = {}

Init == args \in Args /\ Start

\* `for z in args.start_zoom..args.end_zoom+1`
ForZ ==
    /\ pc = "for_z"
    /\ IF z < args.end_zoom + 1
       THEN /\ n' = TileCount(z)
            /\ x' = XStart(z)
            /\ pc' = "for_x"
            /\ z' = z
       ELSE /\ pc' = "drain"
            /\ z' = 0 /\ n' = 0 /\ x' = 0
    /\ UNCHANGED <<args, y, directory, handles, i, len, threads, dispatched,
                   dirs, files, stdout>>

\* a directory that nobody makes sure of
EnsureForgotten(ds, d) == ds

\* `if !Path::new(&directory).is_dir() { create_dir_all(&directory) }`: the
\* directory is there already, or create_dir_all makes it
EnsuredAfter(ds, d) == Append(ds, d)

\* a creation error that is ignored: main goes on into the y loop
CreateDirErrorIgnored == "for_y"

\* `.unwrap()` on the Err of create_dir_all: main panics
AfterCreateDirError == "panicked"

\* `for x in args.x..n`, and the directory of (z, x)
ForX ==
    /\ pc = "for_x"
    /\ IF x < n
       THEN /\ directory' = Directory(z, x)
            /\ dirs' = EnsuredAfter(dirs, Directory(z, x))
            /\ y' = YStart(z, x)
            /\ pc' = "for_y"
            /\ UNCHANGED <<z, x>>
       ELSE /\ z' = z + 1
            /\ x' = 0
            /\ pc' = "for_z"
            /\ UNCHANGED <<directory, dirs, y>>
    /\ UNCHANGED <<args, n, handles, i, len, threads, dispatched, files, stdout>>

\* `std::fs::create_dir_all(&directory).unwrap()` on an Err: main panics and
\* the process ends, whatever the spawned threads were doing
CreateDirPanic ==
    /\ pc = "for_x"
    /\ x < n
    /\ directory' = Directory(z, x)
    /\ pc' = AfterCreateDirError
    /\ UNCHANGED <<args, z, n, x, y, handles, i, len, threads, dispatched,
                   dirs, files, stdout>>

\* `for y in args.y..n`
ForY ==
    /\ pc = "for_y"
    /\ IF y < n
       THEN /\ pc' = "throttle"
            /\ UNCHANGED <<x, y, directory>>
       ELSE /\ x' = x + 1
            /\ y' = 0
            /\ directory' = ""
            /\ pc' = "for_x"
    /\ UNCHANGED <<args, z, n, handles, i, len, threads, dispatched, dirs,
                   files, stdout>>

\* ------------------------------------------------------- main: thread pool
\* a dispatcher that waits for the whole pool to finish
WaitsForEmptyPool(length, limit) == length > 0

\* a throttle test that waits at the limit already
AtOrOverLimit(length, limit) == length >= limit

\* a throttle test that lets one more handle in
OverLimitByTwo(length, limit) == length > limit + 1

\* `while handles.len() > args.concurrent_threads`
OverLimit(length, limit) == length > limit

\* a sweep that removes a handle without asking whether its thread is done
ReapUnasked(h) == TRUE

\* a sweep that takes no thread for finished
ReapNever(h) == FALSE

\* `if h.is_finished()`
IsFinished(h) == threads[h].finished

\* a removal that takes the handle after the one looked at
RemoveNext(s, k) == SubSeq(s, 1, k + 1) \o SubSeq(s, k + 3, Len(s))

\* Vec::remove(i), 0-based
RemoveAt(s, k) == SubSeq(s, 1, k) \o SubSeq(s, k + 2, Len(s))

\* one iteration of `for i in 0..handles.len()`: get(i) is None past the
\* vector's current end; the handle of a finished thread is removed
SweepStep ==
    /\ IF i < Len(handles) /\ IsFinished(handles[i + 1])
       THEN handles' = RemoveAt(handles, i)
       ELSE UNCHANGED handles
    /\ i' = i + 1

\* the while loop is entered: sleep 10 ms, then the sweep starts
Throttle ==
    /\ pc = "throttle"
    /\ OverLimit(Len(handles), args.concurrent_threads)
    /\ i' = 0
    /\ len' = Len(handles)
    /\ pc' = "throttle_sweep"
    /\ UNCHANGED <<args, z, n, x, y, directory, handles, threads, dispatched,
                   dirs, files, stdout>>

ThrottleSweep ==
    /\ pc = "throttle_sweep"
    /\ IF i < len
       THEN /\ SweepStep
            /\ UNCHANGED <<pc, len>>
       ELSE /\ pc' = "throttle"
            /\ i' = 0 /\ len' = 0
            /\ UNCHANGED handles
    /\ UNCHANGED <<args, z, n, x, y, directory, threads, dispatched, dirs,
                   files, stdout>>

\* the while loop is left: `handles.push(thread::spawn(...))`
Spawn ==
    /\ pc = "throttle"
    /\ ~OverLimit(Len(handles), args.concurrent_threads)
    /\ LET id == TileId(z, x, y)
           path == Path(directory, y)
       IN /\ handles' = Append(handles, id)
          /\ threads' = [t \in DOMAIN threads \cup {id} |->
                            IF t = id
                            THEN [path |-> path,
                                  bounds |-> Bounds(n, x, y),
                                  finished |-> FALSE]
                            ELSE threads[t]]
          /\ dispatched' = Append(dispatched, id)
          /\ files' = [p \in DOMAIN files \cup {path} |->
                          IF p \in DOMAIN files THEN files[p] ELSE Untouched]
    /\ y' = y + 1
    /\ pc' = "for_y"
    /\ UNCHANGED <<args, z, n, x, directory, i, len, dirs, stdout>>

\* `while !handles.is_empty()`: sleep 100 ms, then the sweep starts
Drain ==
    /\ pc = "drain"
    /\ IF handles # <<>>
       THEN /\ i' = 0
            /\ len' = Len(handles)
            /\ pc' = "drain_sweep"
       ELSE /\ pc' = "done"
            /\ UNCHANGED <<i, len>>
    /\ UNCHANGED <<args, z, n, x, y, directory, handles, threads, dispatched,
                   dirs, files, stdout>>

DrainSweep ==
    /\ pc = "drain_sweep"
    /\ IF i < len
       THEN /\ SweepStep
            /\ UNCHANGED <<pc, len>>
       ELSE /\ pc' = "drain"
            /\ i' = 0 /\ len' = 0
            /\ UNCHANGED handles
    /\ UNCHANGED <<args, z, n, x, y, directory, threads, dispatched, dirs,
                   files, stdout>>

\* ------------------------------------------------------------ worker thread
\* a failure that reaches the main thread and ends it
MainAbortsOnFailure(p) == "panicked"

\* what a thread's failure does to the main thread: nothing
MainAfterFailure(p) == p

\* a closure that goes round again after a failure
RetryOnFailure(ret) == ret = "Some"

\* the closure returns after either branch of its `if let`: the thread is
\* finished whatever run_request returned
FinishedAfter(ret) == TRUE

\* the closure of thread::spawn: run_request, and the message when it fails
ThreadRun(id) ==
    /\ pc \notin {"panicked", "done"}
    /\ id \in DOMAIN threads
    /\ ~threads[id].finished
    /\ \E r \in Responses :
         LET ret == RunRequest(r, StatusOf(id))
             path == threads[id].path
         IN /\ threads' = [threads EXCEPT ![id].finished = FinishedAfter(ret)]
            /\ files' = [files EXCEPT ![path] = FileAfter(r, StatusOf(id), files[path])]
            /\ stdout' = IF ret = "None" THEN stdout \cup {id} ELSE stdout
            /\ pc' = IF ret = "None" THEN MainAfterFailure(pc) ELSE pc
    /\ UNCHANGED <<args, z, n, x, y, directory, handles, i, len, dispatched, dirs>>

Main ==
    \/ ForZ
    \/ ForX
    \/ CreateDirPanic
    \/ ForY
    \/ Throttle
    \/ ThrottleSweep
    \/ Spawn
    \/ Drain
    \/ DrainSweep

Workers == \E id \in DOMAIN threads : ThreadRun(id)

Next == Main \/ Workers

Spec == Init /\ [][Next]_vars

\* the smaller command lines
LiveInit == Init /\ Load(args) <= MaxLiveLoad

\* the main thread keeps running, and a fetch that can finish does
LiveSpec == LiveInit /\ [][Next]_vars /\ WF_vars(Main) /\ WF_vars(Workers)

\* ---------------------------------------------------------- the tile counts
\* the runs that only compute the tile count of each of their zoom levels
PowArgs ==
    { a \in [start_zoom : 0..MaxPowZoom, end_zoom : 0..MaxPowZoom,
             x : {0}, y : {0}, concurrent_threads : {0}] :
        a.start_zoom <= a.end_zoom }

PowInit == args \in PowArgs /\ Start

\* overflow checks on (a debug build) or off (a release build)
Builds == {"debug", "release"}

\* `let n = u32::pow(2,z)` at the head of a level: with overflow checks an
\* overflow panics, without them the product has wrapped
ForZPow ==
    /\ pc = "for_z"
    /\ z < args.end_zoom + 1
    /\ \E build \in Builds :
         LET p == U32Pow2(z)
         IN IF p.overflow /\ build = "debug"
            THEN /\ pc' = "overflowed"
                 /\ n' = n
            ELSE /\ pc' = "level"
                 /\ n' = [hi |-> p.hi, lo |-> p.lo]
    /\ UNCHANGED <<args, z, x, y, directory, handles, i, len, threads,
                   dispatched, dirs, files, stdout>>

\* on to the next level, the x and y loops of this one left out
NextLevel ==
    /\ pc = "level"
    /\ z' = z + 1
    /\ pc' = "for_z"
    /\ UNCHANGED <<args, n, x, y, directory, handles, i, len, threads,
                   dispatched, dirs, files, stdout>>

PowNext == ForZPow \/ NextLevel

PowSpec == PowInit /\ [][PowNext]_vars

\* the runs of one zoom level with a thread limit of two or more
SlowInit == args \in SlowArgs /\ Start

\* the threads other than the one spawned first
FastWorkers ==
    \E id \in DOMAIN threads : id # dispatched[1] /\ ThreadRun(id)

\* the main thread keeps running and every fetch that can finish does, but
\* for the fetch spawned first, which may take for ever
SlowSpec ==
    SlowInit /\ [][Next]_vars /\ WF_vars(Main) /\ WF_vars(FastWorkers)

\* ================================================================== claims
\* the threads spawned and not yet finished
Running == {id \in DOMAIN threads : ~threads[id].finished}

\* the elements of a sequence
Range(s) == {s[k] : k \in DOMAIN s}

\* (zoom, x, y) lexicographic order
LexLess(a, b) ==
    \/ a[1] < b[1]
    \/ a[1] = b[1] /\ a[2] < b[2]
    \/ a[1] = b[1] /\ a[2] = b[2] /\ a[3] < b[3]

\* C1: the number of fetch tasks spawned and not yet finished never exceeds
\* the configured limit --concurrent-threads.
ConcurrencyBound == Cardinality(Running) <= args.concurrent_threads

\* C2: main returns only after the enumeration is exhausted and every
\* dispatched task has finished: once main has returned, no spawned thread is
\* still running, no handle is left, and every enumerated tile was dispatched.
CompletionBarrier ==
    pc = "done" =>
        /\ Running = {}
        /\ handles = <<>>
        /\ Enumerated(args) \subseteq Range(dispatched)

\* main has returned after a run in which three tiles were fetched, one of
\* them failing and one succeeding
CompletionBarrierWitness ==
    /\ pc = "done"
    /\ Len(dispatched) >= 3
    /\ stdout # {}
    /\ Range(dispatched) \ stdout # {}

\* the number of tiles of the levels lo..hi: the sum of
\* (2^z - startX) * (2^z - startY) over the levels where both are positive
RECURSIVE TileSum(_, _, _, _)
TileSum(lo, hi, sx, sy) ==
    IF lo > hi
    THEN 0
    ELSE (IF 2^lo > sx /\ 2^lo > sy THEN (2^lo - sx) * (2^lo - sy) ELSE 0)
         + TileSum(lo + 1, hi, sx, sy)

\* the sum of 4^z over the levels lo..hi
RECURSIVE FourSum(_, _)
FourSum(lo, hi) == IF lo > hi THEN 0 ELSE 4^lo + FourSum(lo + 1, hi)

\* C3: over a complete run the dispatched addresses are exactly the triples
\* with startZoom <= z <= endZoom, startX <= x < 2^z, startY <= y < 2^z, each
\* exactly once; their number is the sum of (2^z - startX) * (2^z - startY),
\* and the sum of 4^z when both offsets are 0.
EnumerationComplete ==
    /\ \A t \in Range(dispatched) : InEnumeration(args, t)
    /\ Cardinality(Range(dispatched)) = Len(dispatched)
    /\ pc = "done" =>
        /\ Range(dispatched) = Enumerated(args)
        /\ Len(dispatched) =
              TileSum(args.start_zoom, args.end_zoom, args.x, args.y)
        /\ (args.x = 0 /\ args.y = 0) =>
              Len(dispatched) = FourSum(args.start_zoom, args.end_zoom)

\* a complete run over two zoom levels without offsets, and one with offsets
\* that leave part of a level out
EnumerationCompleteWitness ==
    /\ pc = "done"
    /\ \/ args.start_zoom < args.end_zoom /\ args.x = 0 /\ args.y = 0
          /\ Len(dispatched) = 5
       \/ args.x > 0 /\ args.y > 0 /\ Len(dispatched) = 4

\* C4: tasks are spawned in strictly ascending (zoom, x, y) order, whatever
\* the order in which they complete.
DispatchOrder ==
    \A j, k \in DOMAIN dispatched :
        j < k => LexLess(dispatched[j], dispatched[k])

\* a tile of a later column has finished while a tile spawned before it, in
\* an earlier column, is still running
DispatchOrderWitness ==
    \E j, k \in DOMAIN dispatched :
        /\ j < k
        /\ dispatched[j][2] < dispatched[k][2]
        /\ dispatched[j] \in Running
        /\ dispatched[k] \notin Running

\* C5 as stated: the offsets apply at startZoom only, so at every zoom level
\* after startZoom the x range and the y range begin at 0.
OffsetsAtStartZoomOnly ==
    pc = "done" =>
        \A zz \in (args.start_zoom + 1)..args.end_zoom :
            <<zz, 0, 0>> \in Range(dispatched)

\* C5 as amended: the offsets apply at every zoom level: no tile with
\* x < startX or y < startY is ever dispatched, and at each level that has
\* tiles the first one dispatched is (z, startX, startY).
OffsetsAtEveryLevel ==
    /\ \A t \in Range(dispatched) : t[2] >= args.x /\ t[3] >= args.y
    /\ pc = "done" =>
        \A zz \in args.start_zoom..args.end_zoom :
            (args.x < 2^zz /\ args.y < 2^zz) =>
                /\ <<zz, args.x, args.y>> \in Range(dispatched)
                /\ \A t \in Range(dispatched) :
                       (t[1] = zz /\ t # <<zz, args.x, args.y>>) =>
                           LexLess(<<zz, args.x, args.y>>, t)

\* a complete run with a positive x offset that dispatched tiles of a level
\* after startZoom
OffsetsAtEveryLevelWitness ==
    /\ pc = "done"
    /\ args.x > 0
    /\ \E t \in Range(dispatched) : t[1] > args.start_zoom

\* the outcome of a tile's fetch as the run left it
Outcome(id) == <<threads[id], files[threads[id].path], id \in stdout>>

\* C6: a failed fetch is confined to its task: the step in which a task
\* fails leaves the main thread where it was and every other task's outcome
\* as it was, and a run that returns has dispatched every enumerated tile.
FailureIsolation ==
    /\ [][\A id \in DOMAIN threads :
            (id \in stdout' /\ id \notin stdout) =>
                /\ pc' = pc
                /\ <<z, x, y, handles, dispatched>>' = <<z, x, y, handles, dispatched>>
                /\ \A o \in DOMAIN threads \ {id} : Outcome(o)' = Outcome(o)]_vars
    /\ [](pc = "done" => Enumerated(args) \subseteq Range(dispatched))

\* main has returned although the first tile failed, and a tile dispatched
\* after it succeeded
FailureIsolationWitness ==
    /\ pc = "done"
    /\ Len(dispatched) >= 2
    /\ dispatched[1] \in stdout
    /\ dispatched[2] \notin stdout
    /\ files[threads[dispatched[2]].path].bytes > 0

\* C7: under fairness, and if no directory creation fails, the run ends with
\* an empty handle list: the handle of every finished task is removed by some
\* sweep, a dispatcher waiting at the limit gets to spawn, and the final
\* drain loop exits.
EventuallyDrained ==
    /\ [](pc # "panicked") => <>(pc = "done" /\ handles = <<>>)
    /\ [](pc # "panicked") =>
           [](pc \in {"throttle", "throttle_sweep"} => <>(pc = "for_y"))

\* the dispatcher is sweeping at the limit while the handle of a failed task
\* is still in the list
EventuallyDrainedWitness ==
    /\ pc = "throttle_sweep"
    /\ \E k \in DOMAIN handles :
          threads[handles[k]].finished /\ handles[k] \in stdout

\* the destination of a tile: outputDir/zoom/x/y.png
Destination(t) ==
    OutputDir \o "/" \o ToString(t[1]) \o "/" \o ToString(t[2]) \o "/"
              \o ToString(t[3]) \o ".png"

\* C8: the task for (zoom, x, y) writes outputDir/zoom/x/y.png, and no two
\* tasks of a run write the same file.
DistinctDestinations ==
    /\ \A id \in DOMAIN threads : threads[id].path = Destination(id)
    /\ \A a, b \in DOMAIN threads :
           a # b => threads[a].path # threads[b].path

\* two tasks of the same zoom and y, in different columns, run at once
DistinctDestinationsWitness ==
    \E a, b \in Running : a[1] = b[1] /\ a[3] = b[3] /\ a[2] # b[2]

\* C9: a fetch whose copy wrote zero bytes into the created file is reported
\* as failed, and a fetch counts as succeeded only when more than zero bytes
\* were written.
ZeroBytesIsFailure ==
    \A id \in DOMAIN threads :
        threads[id].finished =>
            LET f == files[threads[id].path]
            IN /\ (f.state = "created" /\ f.bytes = 0) => id \in stdout
               /\ id \notin stdout => (f.state = "created" /\ f.bytes > 0)

\* the server answered with a success status, the file was created, nothing
\* was copied, and the task printed its failure
ZeroBytesIsFailureWitness ==
    \E id \in DOMAIN threads :
          /\ StatusOf(id) = 200
          /\ threads[id].finished
          /\ files[threads[id].path] = [state |-> "created", bytes |-> 0]
          /\ id \in stdout

\* C10: the destination file is created or truncated only on a successful
\* HTTP response: a fetch answered with a non-success status leaves the
\* destination untouched and is reported as failed.
FileOnlyOnSuccessStatus ==
    \A id \in DOMAIN threads :
        (threads[id].finished /\ StatusOf(id) # 200) =>
            /\ files[threads[id].path] = Untouched
            /\ id \in stdout

\* C11: a failed directory creation is the only fatal path: the dispatcher
\* stops short of the enumeration only in the step that fails to create
\* outputDir/zoom/x, a failed creation always stops it, no tile of that
\* (zoom, x) or of a later one is ever dispatched, and no failing fetch
\* stops it.
OnlyDirectoryFailureIsFatal ==
    /\ [](pc = "panicked" =>
            /\ directory = Directory(z, x)
            /\ directory \notin Range(dirs)
            /\ \A t \in Range(dispatched) :
                   t[1] < z \/ (t[1] = z /\ t[2] < x))
    /\ []((directory # "" /\ directory \notin Range(dirs)) => pc = "panicked")
    /\ [][(pc' = "panicked" /\ pc # "panicked") =>
              (pc = "for_x" /\ x < n /\ stdout' = stdout)]_vars
    /\ [][pc = "panicked" => dispatched' = dispatched]_vars
    /\ [](pc = "done" => Enumerated(args) \subseteq Range(dispatched))

\* main has panicked on the directory of a second column, after a fetch of
\* the first column had failed without stopping it, with a fetch still going
OnlyDirectoryFailureIsFatalWitness ==
    /\ pc = "panicked"
    /\ Len(dispatched) >= 2
    /\ stdout # {}
    /\ Running # {}

\* the state of the task of tile t
TaskState(t) ==
    IF t \notin DOMAIN threads THEN "Pending"
    ELSE IF ~threads[t].finished THEN "Dispatched"
    ELSE IF t \in stdout THEN "Failed"
    ELSE "Succeeded"

\* the transitions of a task
TaskTransitions ==
    {<<"Pending", "Dispatched">>, <<"Dispatched", "Succeeded">>,
     <<"Dispatched", "Failed">>}

\* C12: every enumerated address is consumed exactly once, and its task goes
\* Pending -> Dispatched -> Succeeded or Failed and nowhere else: it is not
\* dispatched twice, it has no outcome before its terminal state, it never
\* leaves a terminal state, and it is never terminal without having been
\* dispatched.
TaskLifecycle ==
    /\ [][\A t \in DOMAIN threads' :
              \/ TaskState(t)' = TaskState(t)
              \/ <<TaskState(t), TaskState(t)'>> \in TaskTransitions]_vars
    /\ [](\A t \in DOMAIN threads :
              /\ t \in Range(dispatched)
              /\ TaskState(t) = "Dispatched" =>
                     (t \notin stdout /\ files[threads[t].path] = Untouched))
    /\ [](Cardinality(Range(dispatched)) = Len(dispatched))
    /\ [](pc = "done" =>
              \A t \in Enumerated(args) :
                  TaskState(t) \in {"Succeeded", "Failed"})

\* tasks in all four states at once
TaskLifecycleWitness ==
    /\ \E t \in Enumerated(args) : TaskState(t) = "Pending"
    /\ \E t \in DOMAIN threads : TaskState(t) = "Dispatched"
    /\ \E t \in DOMAIN threads : TaskState(t) = "Succeeded"
    /\ \E t \in DOMAIN threads : TaskState(t) = "Failed"

\* C13: with a thread limit of two or more a single slow fetch does not
\* block the pipeline: when the fetch spawned first may stay unfinished for
\* ever while every other fetch that can finish does, the dispatcher still
\* reaches the end of its loops (unless a directory fails), having dispatched
\* the whole enumeration, and only the final drain waits for the slow fetch.
SlowFetchDoesNotBlock ==
    /\ <>(pc \in {"panicked", "drain"})
    /\ [](pc = "drain" => \A t \in Enumerated(args) : t \in DOMAIN threads)
    /\ [](pc = "done" => Running = {})

\* the whole enumeration has been dispatched past the thread limit, and the
\* drain loop is left waiting for the fetch spawned first alone
SlowFetchDoesNotBlockWitness ==
    /\ args.concurrent_threads >= 2
    /\ Len(dispatched) > args.concurrent_threads + 1
    /\ pc = "drain_sweep"
    /\ handles = <<dispatched[1]>>
    /\ Running = {dispatched[1]}

\* 2^zz, in three halves, lowest first
ExactPow2(zz) ==
    [k \in 0..2 |-> IF zz \div (U32Bits \div 2) = k
                    THEN 2^(zz % (U32Bits \div 2)) ELSE 0]

\* C14: at every zoom level z of the requested range the tile count n,
\* computed in 32-bit unsigned arithmetic, is 2^z, so that every dispatched
\* tile has startZoom <= zoom <= endZoom, 0 <= x < 2^zoom and
\* 0 <= y < 2^zoom.
TileCountIsPowerOfTwo ==
    /\ pc # "overflowed"
    /\ pc = "level" =>
           [k \in 0..2 |-> IF k = 0 THEN n.lo ELSE IF k = 1 THEN n.hi ELSE 0]
               = ExactPow2(z)
    /\ \A t \in Range(dispatched) :
           /\ args.start_zoom <= t[1] /\ t[1] <= args.end_zoom
           /\ 0 <= t[2] /\ t[2] < 2^(t[1])
           /\ 0 <= t[3] /\ t[3] < 2^(t[1])

\* C15: a zoom level with startX >= 2^z or startY >= 2^z contributes no
\* dispatched tile and is no error: main does not stop at such a level (a
\* level without x columns creates no directory and so cannot fail), and the
\* run goes on with the following levels to its normal end.
EmptyLevelsAreSkipped ==
    /\ \A t \in Range(dispatched) : args.x < 2^(t[1]) /\ args.y < 2^(t[1])
    /\ pc = "panicked" => args.x < 2^z
    /\ pc = "done" =>
           \A zz \in args.start_zoom..args.end_zoom :
               (args.x < 2^zz /\ args.y < 2^zz) =>
                   \E k \in DOMAIN dispatched : dispatched[k][1] = zz

\* a run has ended normally whose first level was empty and whose last level
\* was not
EmptyLevelsAreSkippedWitness ==
    /\ pc = "done"
    /\ args.start_zoom < args.end_zoom
    /\ args.x >= 2^(args.start_zoom) \/ args.y >= 2^(args.start_zoom)
    /\ \E k \in DOMAIN dispatched : dispatched[k][1] = args.end_zoom

\* the box of tile (zz, xx, yy) as the claim writes it, in units of 1/2^zz
\* of a degree: 90 - y*latStep, that less latStep, x*lonStep - 180, that
\* plus lonStep, with lonStep = 360/n and latStep = 180/n
ClaimedBox(zz, xx, yy) ==
    LET nn == 2^zz
    IN <<<<90 * nn - yy * 180, nn>>, <<90 * nn - yy * 180 - 180, nn>>,
         <<xx * 360 - 180 * nn, nn>>, <<xx * 360 - 180 * nn + 360, nn>>>>

\* two fractions of the same value
SameF32(a, b) == a[1] * b[2] = b[1] * a[2]

\* C16: the values put in place of {bounds} for tile (zoom, x, y) are the
\* 4-tuple (north, south, west, east) = (90 - y*latStep,
\* 90 - y*latStep - latStep, x*lonStep - 180, x*lonStep - 180 + lonStep);
\* at zoom 1 tile (0,0) gets (90,0,-180,0) and tile (1,1) gets (0,-90,0,180).
\* A task gets them when it is spawned and keeps them.
BoundsAreNorthSouthWestEast ==
    [][\A id \in DOMAIN threads' :
           IF id \in DOMAIN threads
           THEN threads'[id].bounds = threads[id].bounds
           ELSE /\ \A k \in 1..4 :
                      SameF32(threads'[id].bounds[k],
                              ClaimedBox(id[1], id[2], id[3])[k])
                /\ id = <<1, 0, 0>> =>
                      BoundsText(threads'[id].bounds) = "(90,0,-180,0)"
                /\ id = <<1, 1, 1>> =>
                      BoundsText(threads'[id].bounds) = "(0,-90,0,180)"]_vars

\* both tiles of the example have been dispatched
BoundsAreNorthSouthWestEastWitness ==
    /\ <<1, 0, 0>> \in DOMAIN threads
    /\ <<1, 1, 1>> \in DOMAIN threads

\* C17: the directory outputDir/zoom/x of every dispatched task was ensured
\* before the dispatch, and the ensure step runs once per (zoom, x), before
\* the y loop of that column, never once per y.
DirectoryEnsuredOncePerColumn ==
    /\ [](\A t \in Range(dispatched) :
              \E d \in Range(dirs) :
                  /\ d = Directory(t[1], t[2])
                  /\ threads[t].path = Path(d, t[3]))
    /\ [](Cardinality(Range(dirs)) = Len(dirs))
    /\ [][dirs' # dirs =>
              /\ dirs' = Append(dirs, Directory(z, x))
              /\ dispatched' = dispatched
              /\ \A t \in Range(dispatched) : ~(t[1] = z /\ t[2] = x)]_vars
    /\ [][dispatched' # dispatched => dirs' = dirs]_vars

\* two tiles of one column have been dispatched after a single ensure step
\* for it, the second ensure step of the run
DirectoryEnsuredOncePerColumnWitness ==
    /\ Len(dirs) = 2
    /\ \E j, k \in DOMAIN dispatched :
           /\ j < k
           /\ dispatched[j][1] = dispatched[k][1]
           /\ dispatched[j][2] = dispatched[k][2]
           /\ Directory(dispatched[j][1], dispatched[j][2]) = dirs[2]

\* C18: the handles vector never holds more than concurrentLimit + 1
\* entries, since a task is spawned only when it holds at most
\* concurrentLimit.
HandlesAtMostLimitPlusOne ==
    /\ [](Len(handles) <= args.concurrent_threads + 1)
    /\ [][Len(handles') > Len(handles) =>
              /\ Len(handles) <= args.concurrent_threads
              /\ Len(handles') = Len(handles) + 1]_vars

\* the vector is at its largest, with a limit of one and every thread in it
\* still running, and main is waiting to dispatch the next tile
HandlesAtMostLimitPlusOneWitness ==
    /\ args.concurrent_threads = 1
    /\ Len(handles) = 2
    /\ Range(handles) \subseteq Running
    /\ pc = "throttle_sweep"

\* C19: a sweep, whose index runs over the range fixed at its start while it
\* removes, never removes a handle whose thread has not finished and never
\* removes at an index outside the vector as it then is, in the throttle
\* loop and in the drain loop alike; it may leave a finished handle to a
\* later sweep, but no unfinished thread ever loses its handle.
SweepRemovesOnlyFinished ==
    /\ [][handles' # handles /\ Len(handles') <= Len(handles) =>
              /\ pc \in {"throttle_sweep", "drain_sweep"}
              /\ i < len
              /\ i < Len(handles)
              /\ threads[handles[i + 1]].finished
              /\ handles' = SubSeq(handles, 1, i) \o
                                SubSeq(handles, i + 2, Len(handles))]_vars
    /\ [](Running \subseteq Range(handles))
    /\ [](pc \in {"throttle_sweep", "drain_sweep"} =>
              (i <= len /\ Len(handles) <= len))

\* a throttle sweep has removed a handle and now looks past the end of the
\* shortened vector, leaving behind a handle that was finished all along
SweepRemovesOnlyFinishedWitness ==
    /\ pc = "throttle_sweep"
    /\ i < len
    /\ i >= Len(handles)
    /\ Len(handles) < len
    /\ \E k \in DOMAIN handles : threads[handles[k]].finished

\* C20: with a thread limit of 0 the run does not deadlock: when every
\* dispatched fetch finishes in the end, the run comes to its end (unless a
\* directory fails) with every enumerated tile dispatched, each of them only
\* once the handles vector had become empty.
ZeroLimitRunsOneAtATime ==
    /\ <>(args.concurrent_threads # 0 \/ pc \in {"panicked", "done"})
    /\ [](args.concurrent_threads = 0 /\ pc = "done" =>
              \A t \in Enumerated(args) : t \in DOMAIN threads)
    /\ [][args.concurrent_threads = 0 /\ dispatched' # dispatched =>
              handles = <<>>]_vars

\* a run with limit 0 has ended after dispatching several tiles
ZeroLimitRunsOneAtATimeWitness ==
    /\ args.concurrent_threads = 0
    /\ pc = "done"
    /\ Len(dispatched) >= 3

====
